---- MODULE Spec2Model ----
(***************************************************************************)
(* Model of extract_tasks_and_spares.py: the line classifiers, the task    *)
(* row parser, the spare-part block parser and the two extraction passes.  *)
(*                                                                         *)
(* A Python str is modelled as a sequence of one-character strings, so     *)
(* that strip, split, lower, startswith and the regular expressions are    *)
(* computed character by character as the code computes them.  The empty   *)
(* str is the empty sequence.                                              *)
(***************************************************************************)
EXTENDS Integers, Sequences, FiniteSets, TLC

----------------------------------------------------------------------------
(* Characters and the str methods the code uses *)

Digit == {"0", "1", "2", "3", "4", "5", "6", "7", "8", "9"}

UpperLetters == <<"A", "B", "C", "D", "E", "F", "G", "H", "I", "J", "K", "L", "M",
    "N", "O", "P", "Q", "R", "S", "T", "U", "V", "W", "X", "Y", "Z">>

LowerLetters == <<"a", "b", "c", "d", "e", "f", "g", "h", "i", "j", "k", "l", "m",
    "n", "o", "p", "q", "r", "s", "t", "u", "v", "w", "x", "y", "z">>

Upper == {UpperLetters[i] : i \in 1..26}

Lower == {LowerLetters[i] : i \in 1..26}

\* str.lower() on one character
lower_char(c) ==
    IF c \in Upper THEN LowerLetters[CHOOSE i \in 1..26 : UpperLetters[i] = c] ELSE c

\* str.lower()
RECURSIVE lower(_)
lower(s) == IF s = <<>> THEN <<>> ELSE <<lower_char(Head(s))>> \o lower(Tail(s))

RECURSIVE lstrip(_)
lstrip(s) == IF s # <<>> /\ Head(s) = " " THEN lstrip(Tail(s)) ELSE s

RECURSIVE rstrip(_)
rstrip(s) ==
    IF s # <<>> /\ s[Len(s)] = " " THEN rstrip(SubSeq(s, 1, Len(s) - 1)) ELSE s

\* str.strip()
strip(s) == rstrip(lstrip(s))

\* index of the first character of s that lies in set cs, 0 when there is none
find_first(s, cs) ==
    IF \E i \in 1..Len(s) : s[i] \in cs
    THEN CHOOSE i \in 1..Len(s) : s[i] \in cs /\ \A j \in 1..(i - 1) : s[j] \notin cs
    ELSE 0

\* str.split(): the maximal runs of non-whitespace characters
RECURSIVE split(_)
split(s) ==
    LET t == lstrip(s)
        n == find_first(t, {" "})
    IN  IF t = <<>> THEN <<>>
        ELSE IF n = 0 THEN <<t>>
        ELSE <<SubSeq(t, 1, n - 1)>> \o split(SubSeq(t, n + 1, Len(t)))

\* " ".join(tokens)
RECURSIVE join(_)
join(tokens) ==
    IF tokens = <<>> THEN <<>>
    ELSE IF Len(tokens) = 1 THEN tokens[1]
    ELSE tokens[1] \o <<" ">> \o join(Tail(tokens))

\* str.startswith(prefix)
startswith(s, prefix) ==
    Len(s) >= Len(prefix) /\ SubSeq(s, 1, Len(prefix)) = prefix

\* sub in s
contains(s, sub) ==
    \E i \in 1..(Len(s) - Len(sub) + 1) : SubSeq(s, i, i + Len(sub) - 1) = sub

all_digits(s) == \A i \in 1..Len(s) : s[i] \in Digit

\* str.isalpha() and str.isupper() together: non-empty, upper-case letters only
isalpha_isupper(s) == s # <<>> /\ \A i \in 1..Len(s) : s[i] \in Upper

\* str.isupper(): some cased character, and no lower-case one
isupper(s) ==
    /\ \E i \in 1..Len(s) : s[i] \in Upper
    /\ \A i \in 1..Len(s) : s[i] \notin Lower

\* tokens[a:] of a Python list (a is 0-based)
drop(tokens, a) == SubSeq(tokens, a + 1, Len(tokens))

\* tokens[:-k]
drop_last(tokens, k) == SubSeq(tokens, 1, Len(tokens) - k)

\* tokens[-k:] for k <= len(tokens)
last_k(tokens, k) == SubSeq(tokens, Len(tokens) - k + 1, Len(tokens))

\* the characters of s that lie in set cs, in order (re.sub of the others by "")
RECURSIVE keep_chars(_, _)
keep_chars(s, cs) ==
    IF s = <<>> THEN <<>>
    ELSE (IF Head(s) \in cs THEN <<Head(s)>> ELSE <<>>) \o keep_chars(Tail(s), cs)

----------------------------------------------------------------------------
(* String constants of the source *)

K_asset == <<"a", "s", "s", "e", "t", ":">>
K_database == <<"d", "a", "t", "a", "b", "a", "s", "e", ":">>
K_printed_by == <<"p", "r", "i", "n", "t", "e", "d", " ", "b", "y">>
K_page == <<"p", "a", "g", "e", " ">>
K_task_code == <<"t", "a", "s", "k", " ", "c", "o", "d", "e">>
K_trade == <<"t", "r", "a", "d", "e">>
K_task_action == <<"t", "a", "s", "k", " ", "a", "c", "t", "i", "o", "n">>
K_task_description == <<"t", "a", "s", "k", " ", "d", "e", "s", "c", "r", "i", "p", "t", "i",
    "o", "n">>
K_no == <<"n", "o">>
K_interval == <<"i", "n", "t", "e", "r", "v", "a", "l">>
K_reference == <<"r", "e", "f", "e", "r", "e", "n", "c", "e">>
K_recap == <<"r", "e", "c", "a", "p">>
K_hours == <<"h", "o", "u", "r", "s">>
K_hour == <<"h", "o", "u", "r">>
K_week == <<"w", "e", "e", "k">>
K_weeks == <<"w", "e", "e", "k", "s">>
K_month == <<"m", "o", "n", "t", "h">>
K_months == <<"m", "o", "n", "t", "h", "s">>
K_day == <<"d", "a", "y">>
K_days == <<"d", "a", "y", "s">>
S_No_Interval == <<"N", "o", " ", "I", "n", "t", "e", "r", "v", "a", "l">>
S_Recap == <<"R", "e", "c", "a", "p">>
S_No_reference == <<"N", "o", " ", "r", "e", "f", "e", "r", "e", "n", "c", "e">>
S_Y == <<"Y">>

----------------------------------------------------------------------------
(* Line classifiers and the context row parser *)

\* is_header_line: the four column titles appear in the space-normalised line
is_header_line(line) ==
    LET low == join(split(lower(line)))
    IN  /\ contains(low, K_task_code)
        /\ contains(low, K_trade)
        /\ contains(low, K_task_action)
        /\ contains(low, K_task_description)

\* end of the run of digits of s that starts at index i (i - 1 when s[i] is no digit)
RECURSIVE digit_run_end(_, _)
digit_run_end(s, i) ==
    IF i <= Len(s) /\ s[i] \in Digit THEN digit_run_end(s, i + 1) ELSE i - 1

\* the indexes at which the pattern \((\d+)\) matches in line
paren_code_starts(line) ==
    {i \in 1..Len(line) :
        /\ line[i] = "("
        /\ digit_run_end(line, i + 1) > i
        /\ digit_run_end(line, i + 1) < Len(line)
        /\ line[digit_run_end(line, i + 1) + 1] = ")"}

\* re.findall(r"\((\d+)\)", line)[-1], or "" when nothing matches
last_paren_code(line) ==
    LET starts == paren_code_starts(line)
        i == CHOOSE k \in starts : \A m \in starts : m <= k
    IN  IF starts = {} THEN <<>> ELSE SubSeq(line, i + 1, digit_run_end(line, i + 1))

\* faulty parse_grey_row that does not strip the two locations; C6 fails under it
parse_grey_row_unstripped(line) ==
    LET b == find_first(line, {"\\"})
        part0 == IF b = 0 THEN line ELSE SubSeq(line, 1, b - 1)
        part1 == IF b = 0 THEN <<>> ELSE SubSeq(line, b + 1, Len(line))
    IN  [location1 |-> part0,
         location2 |-> part1,
         set_type_code |-> last_paren_code(line),
         component_path |-> strip(line)]

\* parse_grey_row: location 1, location 2, set type code, component path
parse_grey_row(line) ==
    LET b == find_first(line, {"\\"})
        part0 == IF b = 0 THEN line ELSE SubSeq(line, 1, b - 1)
        part1 == IF b = 0 THEN <<>> ELSE SubSeq(line, b + 1, Len(line))
    IN  [location1 |-> strip(part0),
         location2 |-> strip(part1),
         set_type_code |-> last_paren_code(line),
         component_path |-> strip(line)]

looks_like_component_line(line) ==
    LET stripped == strip(line)
    IN  /\ stripped # <<>>
        /\ \/ contains(line, <<"\\">>)
           \/ contains(line, <<"[">>)
           \/ startswith(stripped, <<"(">>)

\* strip_status_prefix: the line from its first digit or '*' on, stripped
strip_status_prefix(line) ==
    LET m == find_first(line, Digit \cup {"*"})
    IN  IF m # 0 THEN strip(SubSeq(line, m, Len(line))) ELSE strip(line)

is_metadata_line(line) ==
    LET low == lower(line)
    IN  \/ startswith(low, K_asset)
        \/ startswith(low, K_database)
        \/ startswith(low, K_printed_by)
        \/ startswith(low, K_page)

\* the pattern \*?\d{6,8} matched against a whole token
is_task_code(tok) ==
    LET d == IF tok # <<>> /\ Head(tok) = "*" THEN Tail(tok) ELSE tok
    IN  all_digits(d) /\ Len(d) >= 6 /\ Len(d) <= 8

looks_like_task_row(line) ==
    LET tokens == split(strip_status_prefix(line))
    IN  /\ ~is_metadata_line(line)
        /\ ~(/\ contains(line, <<"\\">>)
             /\ contains(line, <<"(">>)
             /\ contains(line, <<")">>))
        /\ Len(tokens) >= 3
        /\ ~contains(tokens[1], <<"/">>)
        /\ is_task_code(tokens[1])
        /\ isalpha_isupper(tokens[2])

\* faulty normalize_task_code that keeps the marker; C1 fails under it
normalize_task_code_keeps_marker(code) == code

\* normalize_task_code: one leading '*' removed
normalize_task_code(code) ==
    IF code # <<>> /\ Head(code) = "*" THEN Tail(code) ELSE code

----------------------------------------------------------------------------
(* Task row parser *)

interval_units == {K_hours, K_hour, K_week, K_weeks, K_month, K_months, K_day, K_days}

\* _split_interval: (body, interval)
_split_interval(tokens) ==
    LET n == Len(tokens)
        low == [i \in 1..n |-> lower(tokens[i])]
    IN  IF n = 0 THEN [body |-> <<>>, interval |-> <<>>]
        ELSE IF n >= 2 /\ low[n - 1] = K_no /\ low[n] = K_interval
            THEN [body |-> drop_last(tokens, 2), interval |-> S_No_Interval]
        ELSE IF /\ low[n] \in interval_units
                /\ n >= 2
                /\ tokens[n - 1] # <<>>
                /\ all_digits(tokens[n - 1])
            THEN [body |-> drop_last(tokens, 2),
                  interval |-> tokens[n - 1] \o <<" ">> \o tokens[n]]
        ELSE IF low[n] = K_recap
            THEN [body |-> drop_last(tokens, 1), interval |-> S_Recap]
        ELSE IF n >= 2
            THEN [body |-> drop_last(tokens, 2), interval |-> join(last_k(tokens, 2))]
        ELSE [body |-> <<>>, interval |-> tokens[n]]

\* the test of the lookback loop: a digit, one of : ; / . - or a short upper-case word
is_doc_ref_token(tok) ==
    \/ \E i \in 1..Len(tok) : tok[i] \in Digit
    \/ \E i \in 1..Len(tok) : tok[i] \in {":", ";", "/", ".", "-"}
    \/ (isupper(tok) /\ Len(tok) <= 4)

\* 0-based index at which the document reference starts
doc_start_index(tokens) ==
    LET n == Len(tokens)
        lookback_start == IF n > 5 THEN n - 5 ELSE 0
        hits == {k \in lookback_start..(n - 1) : is_doc_ref_token(tokens[k + 1])}
    IN  IF hits = {} THEN n - 1
        ELSE CHOOSE k \in hits : \A m \in hits : k <= m

\* _split_doc_ref_and_description: (description, doc_ref)
_split_doc_ref_and_description(tokens) ==
    LET n == Len(tokens)
        doc_start == doc_start_index(tokens)
    IN  IF n = 0 THEN [description |-> <<>>, doc_ref |-> <<>>]
        ELSE IF /\ n >= 2
                /\ lower(tokens[n - 1]) = K_no
                /\ lower(tokens[n]) = K_reference
            THEN [description |-> strip(join(drop_last(tokens, 2))),
                  doc_ref |-> S_No_reference]
        ELSE [description |-> strip(join(SubSeq(tokens, 1, doc_start))),
              doc_ref |-> strip(join(drop(tokens, doc_start)))]

empty_task_row ==
    [task_code |-> <<>>, trade |-> <<>>, task_action |-> <<>>,
     task_description |-> <<>>, doc_ref |-> <<>>, interval |-> <<>>]

\* parse_task_row: code, trade, action, description, doc ref, interval
parse_task_row(line) ==
    LET tokens == split(strip_status_prefix(line))
        si == _split_interval(drop(tokens, 3))
        sd == _split_doc_ref_and_description(si.body)
    IN  IF Len(tokens) < 3 THEN empty_task_row
        ELSE [task_code |-> tokens[1],
              trade |-> tokens[2],
              task_action |-> tokens[3],
              task_description |-> sd.description,
              doc_ref |-> sd.doc_ref,
              interval |-> si.interval]

----------------------------------------------------------------------------
(* Spare-part block parser *)

\* the tail [- ]?\d{3,4} of PART_CANDIDATE_RE matched against the whole of rest
part_tail_fullmatch(rest) ==
    LET d == IF rest # <<>> /\ Head(rest) \in {"-", " "} THEN Tail(rest) ELSE rest
    IN  all_digits(d) /\ Len(d) >= 3 /\ Len(d) <= 4

\* PART_CANDIDATE_RE.fullmatch(s): \d{4,}[- ]?\d{3,4} matches the whole of s
part_candidate_fullmatch(s) ==
    \E n \in 4..Len(s) :
        /\ all_digits(SubSeq(s, 1, n))
        /\ part_tail_fullmatch(SubSeq(s, n + 1, Len(s)))

\* PART_CANDIDATE_RE matches at index i of s: at least four digits, then either three
\* more digits of the same run, or the end of the run, a '-' or ' ', and three digits
part_candidate_match_at(s, i) ==
    LET e == digit_run_end(s, i)
    IN  /\ e - i + 1 >= 4
        /\ \/ e - i + 1 >= 7
           \/ /\ e + 4 <= Len(s)
              /\ s[e + 1] \in {"-", " "}
              /\ all_digits(SubSeq(s, e + 2, e + 4))

\* looks_like_part_line: PART_CANDIDATE_RE.search(line)
looks_like_part_line(line) == \E i \in 1..Len(line) : part_candidate_match_at(line, i)

\* index of the first token that is a part number once cleaned; 0 for None
first_part_token(tokens) ==
    LET hits == {j \in 1..Len(tokens) :
                    part_candidate_fullmatch(keep_chars(tokens[j], Digit \cup {"-"}))}
    IN  IF hits = {} THEN 0 ELSE CHOOSE j \in hits : \A m \in hits : j <= m

\* the split part number "1550595" "9960": first j with >= 4 and >= 3 digits
first_split_part_token(tokens) ==
    LET hits == {j \in 1..(Len(tokens) - 1) :
                    /\ Len(keep_chars(tokens[j], Digit)) >= 4
                    /\ Len(keep_chars(tokens[j + 1], Digit)) >= 3}
    IN  IF hits = {} THEN 0 ELSE CHOOSE j \in hits : \A m \in hits : j <= m

\* index of the first task code token after part_idx; 0 for None
first_task_token(tokens, part_idx) ==
    LET hits == {j \in (part_idx + 1)..Len(tokens) : is_task_code(tokens[j])}
    IN  IF hits = {} THEN 0 ELSE CHOOSE j \in hits : \A m \in hits : j <= m

\* [A-Za-z]{1,4} matched against the whole token
is_uom(tok) ==
    Len(tok) >= 1 /\ Len(tok) <= 4 /\ \A i \in 1..Len(tok) : tok[i] \in Upper \cup Lower

\* [0-9]+(?:\.[0-9]+)? matched against the whole token
is_qty(tok) ==
    LET p == find_first(tok, {"."})
    IN  IF p = 0 THEN tok # <<>> /\ all_digits(tok)
        ELSE /\ p > 1
             /\ p < Len(tok)
             /\ all_digits(SubSeq(tok, 1, p - 1))
             /\ all_digits(SubSeq(tok, p + 1, Len(tok)))

\* the lines at which the continuation loop of parse_part_block stops
ends_part_block(nxt) ==
    \/ looks_like_part_line(nxt)
    \/ looks_like_task_row(nxt)
    \/ is_header_line(nxt)
    \/ is_metadata_line(nxt)

\* the continuation loop: following lines are joined to the component path
RECURSIVE absorb_continuation(_, _, _)
absorb_continuation(lines, next_idx, component_path) ==
    IF next_idx > Len(lines) \/ ends_part_block(lines[next_idx])
    THEN [component_path |-> component_path, next_idx |-> next_idx]
    ELSE absorb_continuation(lines, next_idx + 1,
            IF strip(lines[next_idx]) # <<>>
            THEN strip(component_path \o <<" ">> \o strip(lines[next_idx]))
            ELSE component_path)

\* faulty split_qty_uom that looks for the qty before the uom; C7 fails under it
split_qty_uom_qty_first(comp_tokens) ==
    LET has_qty == comp_tokens # <<>> /\ is_qty(comp_tokens[Len(comp_tokens)])
        c1 == IF has_qty THEN drop_last(comp_tokens, 1) ELSE comp_tokens
        has_uom == c1 # <<>> /\ is_uom(c1[Len(c1)])
        c2 == IF has_uom THEN drop_last(c1, 1) ELSE c1
    IN  [uom |-> IF has_uom THEN c1[Len(c1)] ELSE <<>>,
         qty |-> IF has_qty THEN comp_tokens[Len(comp_tokens)] ELSE <<>>,
         comp_tokens |-> c2]

\* the qty and uom taken from the end of the component tokens
split_qty_uom(comp_tokens) ==
    LET has_uom == comp_tokens # <<>> /\ is_uom(comp_tokens[Len(comp_tokens)])
        c1 == IF has_uom THEN drop_last(comp_tokens, 1) ELSE comp_tokens
        has_qty == c1 # <<>> /\ is_qty(c1[Len(c1)])
        c2 == IF has_qty THEN drop_last(c1, 1) ELSE c1
    IN  [uom |-> IF has_uom THEN comp_tokens[Len(comp_tokens)] ELSE <<>>,
         qty |-> IF has_qty THEN c1[Len(c1)] ELSE <<>>,
         comp_tokens |-> c2]

\* parse_part_block(lines, idx): idx and next_idx are 1-based here; found is FALSE
\* where the code returns None for the record
parse_part_block(lines, idx) ==
    LET tokens == split(lines[idx])
        p1 == first_part_token(tokens)
        p2 == IF p1 = 0 /\ Len(tokens) >= 2 THEN first_split_part_token(tokens) ELSE 0
        part_idx == IF p1 # 0 THEN p1 ELSE p2
        part_no ==
            IF p1 # 0 THEN keep_chars(tokens[p1], Digit \cup {"-"})
            ELSE keep_chars(tokens[p2], Digit) \o <<"-">>
                     \o keep_chars(tokens[p2 + 1], Digit)
        task_idx == first_task_token(tokens, part_idx)
        task_code == IF task_idx # 0 THEN normalize_task_code(tokens[task_idx]) ELSE <<>>
        task_action ==
            IF task_idx # 0 /\ task_idx + 1 <= Len(tokens)
            THEN tokens[task_idx + 1] ELSE <<>>
        desc_tokens ==
            SubSeq(tokens, part_idx + 1, IF task_idx # 0 THEN task_idx - 1 ELSE Len(tokens))
        tail == split_qty_uom(IF task_idx # 0 THEN drop(tokens, task_idx + 1) ELSE <<>>)
        cont == absorb_continuation(lines, idx + 1, strip(join(tail.comp_tokens)))
    IN  IF tokens = <<>> \/ part_idx = 0
        THEN [found |-> FALSE, next_idx |-> idx + 1]
        ELSE [found |-> TRUE,
              next_idx |-> cont.next_idx,
              TaskCode |-> task_code,
              TaskAction |-> task_action,
              PartNo |-> part_no,
              PartDescription |-> strip(join(desc_tokens)),
              QtyRequired |-> tail.qty,
              UOM |-> tail.uom,
              ComponentPath |-> cont.component_path]

----------------------------------------------------------------------------
(* The input lines of a run *)

\* LnBlank is the text " "
LnBlank == <<" ">>
\* LnAsset is the text "Asset: A100 Filler"
LnAsset == <<"A", "s", "s", "e", "t", ":", " ", "A", "1", "0", "0", " ", "F", "i", "l", "l",
    "e", "r">>
\* LnHeader is the text "Task Code Trade Task Action Task Description"
LnHeader == <<"T", "a", "s", "k", " ", "C", "o", "d", "e", " ", "T", "r", "a", "d", "e", " ",
    "T", "a", "s", "k", " ", "A", "c", "t", "i", "o", "n", " ", "T", "a", "s", "k", " ", "D",
    "e", "s", "c", "r", "i", "p", "t", "i", "o", "n">>
\* LnPage is the text "Page 3"
LnPage == <<"P", "a", "g", "e", " ", "3">>
\* LnCtxChecks is the text "1 Pre-Maintenance \ Checks (9000171371)"
LnCtxChecks == <<"1", " ", "P", "r", "e", "-", "M", "a", "i", "n", "t", "e", "n", "a", "n",
    "c", "e", " ", "\\", " ", "C", "h", "e", "c", "k", "s", " ", "(", "9", "0", "0", "0",
    "1", "7", "1", "3", "7", "1", ")">>
\* LnCtxMotor is the text "2 Drive \ Motor (45)"
LnCtxMotor == <<"2", " ", "D", "r", "i", "v", "e", " ", "\\", " ", "M", "o", "t", "o", "r",
    " ", "(", "4", "5", ")">>
\* LnTaskWarn is the text "9465150 ENGR Check Check warning labels 1000 Hours"
LnTaskWarn == <<"9", "4", "6", "5", "1", "5", "0", " ", "E", "N", "G", "R", " ", "C", "h",
    "e", "c", "k", " ", "C", "h", "e", "c", "k", " ", "w", "a", "r", "n", "i", "n", "g", " ",
    "l", "a", "b", "e", "l", "s", " ", "1", "0", "0", "0", " ", "H", "o", "u", "r", "s">>
\* LnTaskStar is the text "oO *9465150 ENGR Check Check all labels 4.2.5.1-3 500 Hours"
LnTaskStar == <<"o", "O", " ", "*", "9", "4", "6", "5", "1", "5", "0", " ", "E", "N", "G",
    "R", " ", "C", "h", "e", "c", "k", " ", "C", "h", "e", "c", "k", " ", "a", "l", "l", " ",
    "l", "a", "b", "e", "l", "s", " ", "4", ".", "2", ".", "5", ".", "1", "-", "3", " ", "5",
    "0", "0", " ", "H", "o", "u", "r", "s">>
\* LnTaskClean is the text "123456 TECH Clean Clean filter No reference 2 Weeks"
LnTaskClean == <<"1", "2", "3", "4", "5", "6", " ", "T", "E", "C", "H", " ", "C", "l", "e",
    "a", "n", " ", "C", "l", "e", "a", "n", " ", "f", "i", "l", "t", "e", "r", " ", "N", "o",
    " ", "r", "e", "f", "e", "r", "e", "n", "c", "e", " ", "2", " ", "W", "e", "e", "k", "s">>
\* LnCont is the text "and replace if damaged"
LnCont == <<"a", "n", "d", " ", "r", "e", "p", "l", "a", "c", "e", " ", "i", "f", " ", "d",
    "a", "m", "a", "g", "e", "d">>
\* LnPartSeal is the text "1550595-9960 Seal Kit 9465150 Check [648575-0400] 2 EA"
LnPartSeal == <<"1", "5", "5", "0", "5", "9", "5", "-", "9", "9", "6", "0", " ", "S", "e",
    "a", "l", " ", "K", "i", "t", " ", "9", "4", "6", "5", "1", "5", "0", " ", "C", "h", "e",
    "c", "k", " ", "[", "6", "4", "8", "5", "7", "5", "-", "0", "4", "0", "0", "]", " ", "2",
    " ", "E", "A">>
\* LnPartRing is the text "2245010-0001 O-ring 1 EA"
LnPartRing == <<"2", "2", "4", "5", "0", "1", "0", "-", "0", "0", "0", "1", " ", "O", "-",
    "r", "i", "n", "g", " ", "1", " ", "E", "A">>

Vocabulary ==
    {LnBlank, LnAsset, LnHeader, LnPage, LnCtxChecks, LnCtxMotor, LnTaskWarn, LnTaskStar,
     LnTaskClean, LnCont, LnPartSeal, LnPartRing}

\* longest line list of a run
MaxLines == 3

LineLists == UNION {[1..n -> Vocabulary] : n \in 0..MaxLines}

----------------------------------------------------------------------------
(* State of main(): the line list, then the locals of the two passes *)

VARIABLES
    lines,                    \* the OCR lines, the same list for both passes
    phase,                    \* "task", "spare", "done": where main() is
    idx,                      \* 1-based index of the line the running pass reads next
    rows,                     \* task pass: the list of task rows
    rows_by_code,             \* task pass: task code -> index in rows of the shared dict
    current_location1,        \* task pass: carried context
    current_location2,
    current_set_type_code,
    current_component_path,
    last_task_code,
    asset_type,
    asset_code,
    spare_rows,               \* spare pass: the list of spare-part rows
    current_task_code,        \* spare pass: carried task code
    sp_current_location1,     \* spare pass: its own current_location1 .. component_path
    sp_current_location2,
    sp_current_set_type_code,
    sp_current_component_path,
    seen_keys,                \* spare pass: the (task code, part no, description) keys
    sp_context_lines,         \* history: indexes of the lines the spare pass read as context rows
    arg,                      \* argument of a parser run on its own
    result                    \* its return value

task_vars ==
    <<rows, rows_by_code, current_location1, current_location2, current_set_type_code,
      current_component_path, last_task_code, asset_type, asset_code>>

task_context == <<current_location1, current_location2, current_set_type_code,
                  current_component_path>>

spare_vars ==
    <<spare_rows, current_task_code, sp_current_location1, sp_current_location2,
      sp_current_set_type_code, sp_current_component_path, seen_keys, sp_context_lines>>

spare_context == <<sp_current_location1, sp_current_location2, sp_current_set_type_code,
                   sp_current_component_path>>

parser_vars == <<arg, result>>

vars == <<lines, phase, idx, task_vars, spare_vars, parser_vars>>

NoResult == [found |-> FALSE, next_idx |-> 0]

\* the locals of both passes as the code initialises them
PassLocalsInit ==
    /\ rows = <<>>
    /\ rows_by_code = [c \in {} |-> 0]
    /\ current_location1 = <<>>
    /\ current_location2 = <<>>
    /\ current_set_type_code = <<>>
    /\ current_component_path = <<>>
    /\ last_task_code = <<>>
    /\ asset_type = <<>>
    /\ asset_code = <<>>
    /\ spare_rows = <<>>
    /\ current_task_code = <<>>
    /\ sp_current_location1 = <<>>
    /\ sp_current_location2 = <<>>
    /\ sp_current_set_type_code = <<>>
    /\ sp_current_component_path = <<>>
    /\ seen_keys = {}
    /\ sp_context_lines = {}

Init ==
    /\ lines \in LineLists
    /\ phase = "task"
    /\ idx = 1
    /\ PassLocalsInit
    /\ arg = <<>>
    /\ result = NoResult

----------------------------------------------------------------------------
(* Task pass: extract_tasks_and_assets_from_lines, one loop iteration per step *)

\* the branch of the task pass loop that takes a line
task_line_kind(line) ==
    IF strip(line) = <<>> THEN "blank"
    ELSE IF startswith(lower(line), K_asset) THEN "asset"
    ELSE IF is_header_line(line) THEN "header"
    ELSE IF is_metadata_line(line) THEN "metadata"
    ELSE IF looks_like_component_line(line) THEN "component"
    ELSE IF looks_like_task_row(line) THEN "task_row"
    ELSE "other"

\* task_line_kind of every line of the vocabulary, computed once
task_kind_of == [line \in Vocabulary |-> task_line_kind(line)]

AtTaskLine(kind) ==
    /\ phase = "task"
    /\ idx <= Len(lines)
    /\ task_kind_of[lines[idx]] = kind

\* if not line.strip(): continue
TaskBlank ==
    /\ AtTaskLine("blank")
    /\ idx' = idx + 1
    /\ UNCHANGED <<lines, phase, task_vars, spare_vars, parser_vars>>

\* the "asset:" branch: code and type from the text after the first colon
TaskAsset ==
    /\ AtTaskLine("asset")
    /\ LET line == lines[idx]
           parts == split(strip(SubSeq(line, find_first(line, {":"}) + 1, Len(line))))
       IN  IF parts # <<>>
           THEN /\ asset_code' = parts[1]
                /\ asset_type' = join(Tail(parts))
           ELSE UNCHANGED <<asset_code, asset_type>>
    /\ idx' = idx + 1
    /\ UNCHANGED <<lines, phase, rows, rows_by_code, task_context, last_task_code,
                   spare_vars, parser_vars>>

TaskHeader ==
    /\ AtTaskLine("header")
    /\ idx' = idx + 1
    /\ UNCHANGED <<lines, phase, task_vars, spare_vars, parser_vars>>

TaskMetadata ==
    /\ AtTaskLine("metadata")
    /\ idx' = idx + 1
    /\ UNCHANGED <<lines, phase, task_vars, spare_vars, parser_vars>>

\* the looks_like_component_line branch: the carried context is replaced
TaskComponent ==
    /\ AtTaskLine("component")
    /\ LET g == parse_grey_row(lines[idx])
       IN  /\ current_location1' = g.location1
           /\ current_location2' = g.location2
           /\ current_set_type_code' = g.set_type_code
           /\ current_component_path' = g.component_path
    /\ idx' = idx + 1
    /\ UNCHANGED <<lines, phase, rows, rows_by_code, last_task_code, asset_type,
                   asset_code, spare_vars, parser_vars>>

\* the row dict built for a task row.  The keys TypeOfWork .. LocationDependency,
\* Section and AssetType are "" in every row and so are never changed by a merge.
task_row_dict(p, norm_code) ==
    [TaskCode |-> norm_code,
     Trade |-> p.trade,
     TaskAction |-> p.task_action,
     TaskDescription |-> p.task_description,
     DocRef |-> p.doc_ref,
     Interval |-> p.interval,
     Location1 |-> current_location1,
     Location2 |-> current_location2,
     setTypeCode |-> current_set_type_code,
     ComponentPath |-> current_component_path,
     Active |-> S_Y,
     AssetTypeCode |-> current_set_type_code]

\* faulty merge_description that always takes the new row's; C5 fails under it
merge_description_takes_new(existing, value) == value

\* the description the merge keeps: the new one only when strictly longer
merge_description(existing, value) ==
    IF Len(value) > Len(existing) THEN value ELSE existing

\* the merge of a row into the existing dict of its code
merge_row(existing, row) ==
    [key \in DOMAIN row |->
        IF key = "TaskDescription" THEN merge_description(existing[key], row[key])
        ELSE IF existing[key] = <<>> /\ row[key] # <<>> THEN row[key]
        ELSE existing[key]]

\* norm_code in rows_by_code
code_seen(norm_code) == norm_code \in DOMAIN rows_by_code

\* the looks_like_task_row branch: merge into the row of the code, or append
TaskRow ==
    /\ AtTaskLine("task_row")
    /\ LET p == parse_task_row(lines[idx])
           norm_code == normalize_task_code(p.task_code)
           row == task_row_dict(p, norm_code)
       IN  /\ IF code_seen(norm_code)
              THEN /\ rows' = [rows EXCEPT ![rows_by_code[norm_code]] = merge_row(@, row)]
                   /\ UNCHANGED rows_by_code
              ELSE /\ rows' = Append(rows, row)
                   /\ rows_by_code' = (norm_code :> (Len(rows) + 1)) @@ rows_by_code
           /\ last_task_code' = norm_code
    /\ idx' = idx + 1
    /\ UNCHANGED <<lines, phase, task_context, asset_type, asset_code, spare_vars,
                   parser_vars>>

\* any other line: a continuation of the description of the last task row
TaskContinuation ==
    /\ AtTaskLine("other")
    /\ IF /\ last_task_code # <<>>
          /\ ~is_metadata_line(lines[idx])
          /\ last_task_code \in DOMAIN rows_by_code
       THEN rows' = [rows EXCEPT ![rows_by_code[last_task_code]].TaskDescription =
                        strip(@ \o <<" ">> \o strip(lines[idx]))]
       ELSE UNCHANGED rows
    /\ idx' = idx + 1
    /\ UNCHANGED <<lines, phase, rows_by_code, task_context, last_task_code, asset_type,
                   asset_code, spare_vars, parser_vars>>

\* main(): the task pass has returned; the spare pass starts on the same lines with
\* rows_by_code as its task_lookup
TaskPassReturn ==
    /\ phase = "task"
    /\ idx > Len(lines)
    /\ phase' = "spare"
    /\ idx' = 1
    /\ UNCHANGED <<lines, task_vars, spare_vars, parser_vars>>

\* task_lookup.get(task_code, {}).get(key, "")
task_lookup_get(task_code, key) ==
    IF task_code \in DOMAIN rows_by_code THEN rows[rows_by_code[task_code]][key] ELSE <<>>

----------------------------------------------------------------------------
(* Spare-part pass: extract_spare_parts_from_lines, one loop iteration per step *)

\* the branch of the spare pass loop that takes a line
spare_line_kind(line) ==
    IF strip(line) = <<>> THEN "blank"
    ELSE IF is_metadata_line(line) \/ startswith(lower(line), K_asset) THEN "metadata"
    ELSE IF looks_like_part_line(line) THEN "part"
    ELSE IF looks_like_component_line(line) /\ ~looks_like_part_line(line) THEN "component"
    ELSE IF looks_like_task_row(line) THEN "task_row"
    ELSE "other"

\* spare_line_kind of every line of the vocabulary, computed once
spare_kind_of == [line \in Vocabulary |-> spare_line_kind(line)]

AtSpareLine(kind) ==
    /\ phase = "spare"
    /\ idx <= Len(lines)
    /\ spare_kind_of[lines[idx]] = kind

SpareBlank ==
    /\ AtSpareLine("blank")
    /\ idx' = idx + 1
    /\ UNCHANGED <<lines, phase, task_vars, spare_vars, parser_vars>>

SpareMetadata ==
    /\ AtSpareLine("metadata")
    /\ idx' = idx + 1
    /\ UNCHANGED <<lines, phase, task_vars, spare_vars, parser_vars>>

\* parsed.get("TaskCode") or current_task_code or ""
resolve_task_code(parsed_code, carried_code) ==
    IF parsed_code # <<>> THEN parsed_code ELSE carried_code

\* faulty seen_keys.add that records nothing; C4 fails under it
seen_add_nothing(keys, key) == keys

\* seen_keys.add(key)
seen_add(keys, key) == keys \cup {key}

\* faulty spare_row_dict that takes each location from the task's other location; C3
\* fails under it
spare_row_dict_swapped(parsed, task_code) ==
    [TaskCode |-> task_code,
     PartNo |-> parsed.PartNo,
     PartDescription |-> parsed.PartDescription,
     QtyRequired |-> parsed.QtyRequired,
     UOM |-> parsed.UOM,
     Location1 |-> IF sp_current_location1 # <<>> THEN sp_current_location1
                   ELSE task_lookup_get(task_code, "Location2"),
     Location2 |-> IF sp_current_location2 # <<>> THEN sp_current_location2
                   ELSE task_lookup_get(task_code, "Location1"),
     AssetTypeCode |-> sp_current_set_type_code]

\* the spare row built for a parsed block
spare_row_dict(parsed, task_code) ==
    LET from_context == sp_current_set_type_code
        from_task == task_lookup_get(task_code, "setTypeCode")
        set_type_code ==
            IF from_context # <<>> THEN from_context
            ELSE IF from_task # <<>> THEN from_task
            ELSE last_paren_code(parsed.ComponentPath)
    IN  [TaskCode |-> task_code,
         PartNo |-> parsed.PartNo,
         PartDescription |-> parsed.PartDescription,
         QtyRequired |-> parsed.QtyRequired,
         UOM |-> parsed.UOM,
         Location1 |-> IF sp_current_location1 # <<>> THEN sp_current_location1
                       ELSE task_lookup_get(task_code, "Location1"),
         Location2 |-> IF sp_current_location2 # <<>> THEN sp_current_location2
                       ELSE task_lookup_get(task_code, "Location2"),
         AssetTypeCode |-> set_type_code]

\* the looks_like_part_line branch: parse the block, resolve its task code, drop a
\* block with no task code or with a key already seen, else append its row
SparePart ==
    /\ AtSpareLine("part")
    /\ LET parsed == parse_part_block(lines, idx)
           task_code == resolve_task_code(parsed.TaskCode, current_task_code)
           key == <<task_code, parsed.PartNo, parsed.PartDescription>>
       IN  /\ idx' = parsed.next_idx
           /\ IF ~parsed.found
              THEN UNCHANGED <<spare_rows, seen_keys>>
              ELSE IF task_code = <<>> \/ key \in seen_keys
              THEN UNCHANGED <<spare_rows, seen_keys>>
              ELSE /\ seen_keys' = seen_add(seen_keys, key)
                   /\ spare_rows' = Append(spare_rows, spare_row_dict(parsed, task_code))
    /\ UNCHANGED <<lines, phase, task_vars, current_task_code, spare_context,
                   sp_context_lines, parser_vars>>

\* the component branch: the carried context of the spare pass is replaced
SpareComponent ==
    /\ AtSpareLine("component")
    /\ LET g == parse_grey_row(lines[idx])
       IN  /\ sp_current_location1' = g.location1
           /\ sp_current_location2' = g.location2
           /\ sp_current_set_type_code' = g.set_type_code
           /\ sp_current_component_path' = g.component_path
    /\ sp_context_lines' = sp_context_lines \cup {idx}
    /\ idx' = idx + 1
    /\ UNCHANGED <<lines, phase, task_vars, spare_rows, current_task_code, seen_keys,
                   parser_vars>>

\* the task row branch: the first token of the stripped line is the carried code
SpareTaskRow ==
    /\ AtSpareLine("task_row")
    /\ current_task_code' = normalize_task_code(split(strip_status_prefix(lines[idx]))[1])
    /\ idx' = idx + 1
    /\ UNCHANGED <<lines, phase, task_vars, spare_rows, spare_context, seen_keys,
                   sp_context_lines, parser_vars>>

\* a line no branch takes
SpareOther ==
    /\ AtSpareLine("other")
    /\ idx' = idx + 1
    /\ UNCHANGED <<lines, phase, task_vars, spare_vars, parser_vars>>

\* main(): the spare pass has returned
SparePassReturn ==
    /\ phase = "spare"
    /\ idx > Len(lines)
    /\ phase' = "done"
    /\ UNCHANGED <<lines, idx, task_vars, spare_vars, parser_vars>>

Next ==
    \/ TaskBlank
    \/ TaskAsset
    \/ TaskHeader
    \/ TaskMetadata
    \/ TaskComponent
    \/ TaskRow
    \/ TaskContinuation
    \/ TaskPassReturn
    \/ SpareBlank
    \/ SpareMetadata
    \/ SparePart
    \/ SpareComponent
    \/ SpareTaskRow
    \/ SpareOther
    \/ SparePassReturn

Spec == Init /\ [][Next]_vars

----------------------------------------------------------------------------
(* Properties of the two passes, checked under Spec *)

\* a task code with its leading marker character removed
without_marker(code) == IF code # <<>> /\ Head(code) = "*" THEN Tail(code) ELSE code

\* the task code the task pass reads from a task-start row, marker removed
row_code(line) == without_marker(split(strip_status_prefix(line))[1])

\* C1: the task list holds at most one record per normalized task code: no two
\* records of rows have the same TaskCode once a leading '*' is stripped.
C1_OneRecordPerCode ==
    \A i, j \in 1..Len(rows) :
        without_marker(rows[i].TaskCode) = without_marker(rows[j].TaskCode) => i = j

\* C1 witness: the task pass has read the same code twice, once with the marker, with
\* a continuation line in between, and returned one record.
C1_Witness ==
    /\ phase = "spare"
    /\ lines = <<LnTaskWarn, LnCont, LnTaskStar>>
    /\ Len(rows) = 1

\* C3: every spare-part record is emitted with a non-empty TaskCode and, when that code
\* is a key of the task lookup, with Location1 and Location2 each equal to the task's
\* value or to the value of a context row the spare pass read before; an emitted
\* record is never changed afterwards.
C3_SpareLinkedToTask ==
    [][/\ Len(spare_rows') >= Len(spare_rows)
       /\ \A k \in 1..Len(spare_rows) : spare_rows'[k] = spare_rows[k]
       /\ \A k \in (Len(spare_rows) + 1)..Len(spare_rows') :
            LET r == spare_rows'[k]
            IN  /\ r.TaskCode # <<>>
                /\ r.TaskCode \in DOMAIN rows_by_code =>
                    /\ \/ r.Location1 = rows[rows_by_code[r.TaskCode]].Location1
                       \/ \E j \in sp_context_lines :
                            r.Location1 = parse_grey_row(lines[j]).location1
                    /\ \/ r.Location2 = rows[rows_by_code[r.TaskCode]].Location2
                       \/ \E j \in sp_context_lines :
                            r.Location2 = parse_grey_row(lines[j]).location2]_vars

\* C3 witness: a spare part with no task code of its own adopted the carried code of a
\* task in the lookup and took its locations from the context row before it, which
\* differ from the task's.
C3_Witness ==
    /\ phase = "done"
    /\ lines = <<LnTaskClean, LnCtxMotor, LnPartRing>>
    /\ Len(spare_rows) = 1
    /\ spare_rows[1].TaskCode \in DOMAIN rows_by_code
    /\ spare_rows[1].Location1 = parse_grey_row(LnCtxMotor).location1
    /\ spare_rows[1].Location1 # rows[rows_by_code[spare_rows[1].TaskCode]].Location1

\* the deduplication key of a spare-part record
spare_key(r) == <<r.TaskCode, r.PartNo, r.PartDescription>>

\* C4: no two spare-part records of one pass share the triple
\* (TaskCode, PartNo, PartDescription).
C4_NoDuplicateSpare ==
    \A i, j \in 1..Len(spare_rows) :
        spare_key(spare_rows[i]) = spare_key(spare_rows[j]) => i = j

\* C4 witness: the same spare-part line was read twice and one record was emitted.
C4_Witness ==
    /\ phase = "done"
    /\ lines = <<LnPartSeal, LnPartSeal>>
    /\ Len(spare_rows) = 1

\* C5: a task-start row for a code already in the list appends no record: the list
\* keeps its length and its single record for the code, whose description afterwards
\* is the longer of its description before and the row's own.
C5_MergeKeepsLonger ==
    [][(AtTaskLine("task_row") /\ row_code(lines[idx]) \in DOMAIN rows_by_code) =>
        LET code == row_code(lines[idx])
            k == rows_by_code[code]
            old == rows[k].TaskDescription
            new == parse_task_row(lines[idx]).task_description
        IN  /\ Len(rows') = Len(rows)
            /\ {i \in 1..Len(rows') : rows'[i].TaskCode = code} = {k}
            /\ rows'[k].TaskDescription \in {old, new}
            /\ Len(rows'[k].TaskDescription) >= Len(old)
            /\ Len(rows'[k].TaskDescription) >= Len(new)]_vars

\* C5 witness: the same task-start row was read twice in sequence and the list holds
\* one record, with the row's description.
C5_Witness ==
    /\ phase = "task"
    /\ idx = 3
    /\ lines[1] = LnTaskWarn
    /\ lines[2] = LnTaskWarn
    /\ Len(rows) = 1
    /\ rows[1].TaskDescription = parse_task_row(LnTaskWarn).task_description

\* the text of line before its first backslash (all of it when it has none), stripped
before_backslash(line) ==
    LET b == find_first(line, {"\\"})
    IN  strip(IF b = 0 THEN line ELSE SubSeq(line, 1, b - 1))

\* the text of line after its first backslash (none when it has none), stripped
after_backslash(line) ==
    LET b == find_first(line, {"\\"})
    IN  strip(IF b = 0 THEN <<>> ELSE SubSeq(line, b + 1, Len(line)))

\* index of the last context row the task pass has read before line idx; 0 for none
last_context_row ==
    LET seen == {j \in 1..(idx - 1) : task_kind_of[lines[j]] = "component"}
    IN  IF seen = {} THEN 0 ELSE CHOOSE j \in seen : \A m \in seen : m <= j

C6_ExampleLocation1 == <<"1", " ", "P", "r", "e", "-", "M", "a", "i", "n", "t", "e", "n",
    "a", "n", "c", "e">>
C6_ExampleLocation2 == <<"C", "h", "e", "c", "k", "s", " ", "(", "9", "0", "0", "0", "1",
    "7", "1", "3", "7", "1", ")">>
C6_ExampleSetTypeCode == <<"9", "0", "0", "0", "1", "7", "1", "3", "7", "1">>

\* C6: a task-start row for a code not yet seen, read after a context row, appends a
\* record whose Location1 is the context row's text before the first backslash, whose
\* Location2 is the text after it and whose setTypeCode is its last parenthesized
\* digit run; for "1 Pre-Maintenance \ Checks (9000171371)" these are
\* "1 Pre-Maintenance", "Checks (9000171371)" and "9000171371".
C6_ContextCarriedToTask ==
    [][(/\ AtTaskLine("task_row")
        /\ row_code(lines[idx]) \notin DOMAIN rows_by_code
        /\ last_context_row # 0) =>
        LET ctx == lines[last_context_row]
            r == rows'[Len(rows')]
        IN  /\ Len(rows') = Len(rows) + 1
            /\ r.TaskCode = row_code(lines[idx])
            /\ r.Location1 = before_backslash(ctx)
            /\ r.Location2 = after_backslash(ctx)
            /\ r.setTypeCode = last_paren_code(ctx)
            /\ ctx = LnCtxChecks =>
                /\ r.Location1 = C6_ExampleLocation1
                /\ r.Location2 = C6_ExampleLocation2
                /\ r.setTypeCode = C6_ExampleSetTypeCode]_vars

\* C6 witness: the example context row was followed by a task-start row, and the
\* record of that row carries the three example values.
C6_Witness ==
    /\ phase = "task"
    /\ idx = 3
    /\ lines[1] = LnCtxChecks
    /\ lines[2] = LnTaskWarn
    /\ Len(rows) = 1
    /\ rows[1].Location1 = C6_ExampleLocation1
    /\ rows[1].Location2 = C6_ExampleLocation2
    /\ rows[1].setTypeCode = C6_ExampleSetTypeCode

\* C8: whenever the spare pass reads a task-start row, its carried task code
\* afterwards is that row's normalized task code, for codes of 6 to 8 digits.
C8_TaskRowSetsCarriedCode ==
    [][(/\ phase = "spare"
        /\ idx <= Len(lines)
        /\ task_kind_of[lines[idx]] = "task_row") =>
        current_task_code' = row_code(lines[idx])]_vars

\* a line that begins with a part number of the shape \d{5,}-\d{3,}
begins_with_part_number(line) ==
    LET e == digit_run_end(line, 1)
    IN  /\ e >= 5
        /\ e + 4 <= Len(line)
        /\ line[e + 1] = "-"
        /\ all_digits(SubSeq(line, e + 2, e + 4))

\* C9: in both passes a line that begins with a part number is never read as a
\* context row: reading it leaves the carried location context of the pass unchanged.
C9_PartLineKeepsContext ==
    [][(/\ phase \in {"task", "spare"}
        /\ idx <= Len(lines)
        /\ begins_with_part_number(lines[idx])) =>
        UNCHANGED <<task_context, spare_context>>]_vars

\* the lines that end a task block: metadata, header, task-start, context, asset rows
ends_task_block(line) ==
    task_kind_of[line] \in {"metadata", "header", "task_row", "component", "asset"}

\* the block of code has ended before line idx: after the last task-start row of the
\* code a line that ends a task block has been read
block_ended(code) ==
    \E s \in 1..(idx - 1) :
        /\ task_kind_of[lines[s]] = "task_row"
        /\ row_code(lines[s]) = code
        /\ \A t \in (s + 1)..(idx - 1) :
            ~(task_kind_of[lines[t]] = "task_row" /\ row_code(lines[t]) = code)
        /\ \E t \in (s + 1)..(idx - 1) : ends_task_block(lines[t])

\* C10: once a line that ends a task block has been read after a task-start row, no
\* later continuation line is appended to the description of that task, unless a new
\* task-start row for its code came in between.
C10_BlockEndsAtTerminator ==
    [][AtTaskLine("other") =>
        \A code \in DOMAIN rows_by_code :
            block_ended(code) =>
                rows'[rows_by_code[code]].TaskDescription =
                    rows[rows_by_code[code]].TaskDescription]_vars

----------------------------------------------------------------------------
(* The two parsers run on their own: the argument is drawn from a small set of token
   lists, joined into a line, and the parser is applied to the line *)

\* the first three tokens of a task row: code, trade, action
RowHeads ==
    {<<<<"9", "4", "6", "5", "1", "5", "0">>, <<"E", "N", "G", "R">>, <<"C", "h", "e", "c", "k">>>>,
     <<<<"9", "4", "6", "5", "1", "6", "0">>, <<"T", "E", "C", "H">>, <<"C", "h", "e", "c", "k">>>>}

\* the words of a task description
BodyWords ==
    {<<"C", "h", "e", "c", "k">>,
     <<"w", "a", "r", "n", "i", "n", "g">>,
     <<"l", "a", "b", "e", "l", "s">>}

\* most words in a task description
MaxBodyWords == 3

Bodies == UNION {[1..n -> BodyWords] : n \in 0..MaxBodyWords}

\* the document reference tokens of a row: none, "No reference", "4.2.5.1-3", "MAN",
\* "AB/12"
RowRefs ==
    {<<>>,
     <<<<"N", "o">>, <<"r", "e", "f", "e", "r", "e", "n", "c", "e">>>>,
     <<<<"4", ".", "2", ".", "5", ".", "1", "-", "3">>>>,
     <<<<"M", "A", "N">>>>,
     <<<<"A", "B", "/", "1", "2">>>>}

\* the interval tokens of a row: none, "1000 Hours", "2 weeks", "No Interval", "Recap"
RowIntervals ==
    {<<>>,
     <<<<"1", "0", "0", "0">>, <<"H", "o", "u", "r", "s">>>>,
     <<<<"2">>, <<"w", "e", "e", "k", "s">>>>,
     <<<<"N", "o">>, <<"I", "n", "t", "e", "r", "v", "a", "l">>>>,
     <<<<"R", "e", "c", "a", "p">>>>}

TaskRowArgs == [head : RowHeads, body : Bodies, ref : RowRefs, interval : RowIntervals]

\* the line of a task row argument
task_row_line(a) == join(a.head \o a.body \o a.ref \o a.interval)

InitTaskRow ==
    /\ lines = <<>>
    /\ phase = "parse_task_row"
    /\ idx = 1
    /\ PassLocalsInit
    /\ arg \in TaskRowArgs
    /\ result = NoResult

\* parse_task_row(line)
ParseTaskRow ==
    /\ phase = "parse_task_row"
    /\ result' = parse_task_row(task_row_line(arg))
    /\ phase' = "task_row_parsed"
    /\ UNCHANGED <<lines, idx, task_vars, spare_vars, arg>>

SpecTaskRow == InitTaskRow /\ [][ParseTaskRow]_vars

\* the tokens are an integer and a unit of Hours, Weeks, Months, Days
is_integer_unit(tokens) ==
    /\ Len(tokens) = 2
    /\ tokens[1] # <<>>
    /\ all_digits(tokens[1])
    /\ lower(tokens[2]) \in interval_units

\* C2: a task row whose text after code, trade and action ends in an integer and a
\* unit, with no reference token before them, parses to the whole remaining text as
\* description, an empty document reference and that pair as interval; a row whose
\* remaining text ends in "No reference" parses to document reference "No reference"
\* and an empty interval.
C2_IntervalAndNoReference ==
    phase = "task_row_parsed" =>
        /\ (is_integer_unit(arg.interval) /\ arg.ref = <<>>) =>
            /\ result.task_description = join(arg.body)
            /\ result.doc_ref = <<>>
            /\ result.interval = join(arg.interval)
        /\ (arg.interval = <<>> /\ arg.ref = <<<<"N", "o">>, <<"r", "e", "f", "e", "r", "e", "n", "c", "e">>>>) =>
            /\ result.doc_ref = S_No_reference
            /\ result.interval = <<>>

PartNos ==
    {<<"1", "5", "5", "0", "5", "9", "5", "-", "9", "9", "6", "0">>,
     <<"1", "2", "3", "4", "5", "6", "7", "8">>}

\* the words of a part description
DescWords ==
    {<<"S", "e", "a", "l">>,
     <<"K", "i", "t">>}

\* most words in a part description
MaxDescWords == 2

Descs == UNION {[1..n -> DescWords] : n \in 1..MaxDescWords}

PartTaskCodes ==
    {<<"9", "4", "6", "5", "1", "5", "0">>,
     <<"*", "1", "2", "3", "4", "5", "6">>}

PartActions ==
    {<<"C", "h", "e", "c", "k">>}

\* the tokens of a component path
CompWords ==
    {<<"[", "6", "4", "8", "5", "7", "5", "-", "0", "4", "0", "0", "]">>,
     <<"t", "o", "p">>,
     <<"7">>}

\* most tokens in a component path
MaxCompWords == 2

Comps == UNION {[1..n -> CompWords] : n \in 0..MaxCompWords}

Qtys ==
    {<<"2">>,
     <<"1", ".", "5">>}

Uoms ==
    {<<"E", "A">>,
     <<"k", "g">>}

PartBlockArgs ==
    [part_no : PartNos, desc : Descs, task_code : PartTaskCodes, task_action : PartActions,
     comp : Comps, qty : Qtys, uom : Uoms]

\* the single line "<partNo> <description> <taskCode> <action> <component> <qty> <uom>"
part_block_line(a) ==
    join(<<a.part_no>> \o a.desc \o <<a.task_code, a.task_action>> \o a.comp
            \o <<a.qty, a.uom>>)

InitPartBlock ==
    /\ lines = <<>>
    /\ phase = "parse_part_block"
    /\ idx = 1
    /\ PassLocalsInit
    /\ arg \in PartBlockArgs
    /\ result = NoResult

\* parse_part_block(lines, idx) on a list of one line
ParsePartBlock ==
    /\ phase = "parse_part_block"
    /\ result' = parse_part_block(<<part_block_line(arg)>>, 1)
    /\ phase' = "part_block_parsed"
    /\ UNCHANGED <<lines, idx, task_vars, spare_vars, arg>>

SpecPartBlock == InitPartBlock /\ [][ParsePartBlock]_vars

\* C7: a single-line block "<partNo> <description> <taskCode> <action> <component>
\* <qty> <uom>" parses to its first token as PartNo, the tokens between part number
\* and task code as PartDescription, the task code as TaskCode, the last token as UOM,
\* the token before it as QtyRequired and the tokens between as ComponentPath.
C7_PartBlockFields ==
    phase = "part_block_parsed" =>
        /\ result.found
        /\ result.next_idx = 2
        /\ result.PartNo = arg.part_no
        /\ result.PartDescription = join(arg.desc)
        /\ result.TaskCode = without_marker(arg.task_code)
        /\ result.TaskAction = arg.task_action
        /\ result.ComponentPath = join(arg.comp)
        /\ result.QtyRequired = arg.qty
        /\ result.UOM = arg.uom

\* C7 witness: the block "1550595-9960 Seal Kit 9465150 Check [648575-0400] 2 EA" was
\* parsed to part number "1550595-9960", description "Seal Kit", task code "9465150",
\* component path "[648575-0400]", quantity "2" and unit "EA".
C7_Witness ==
    /\ phase = "part_block_parsed"
    /\ part_block_line(arg) = LnPartSeal
    /\ result.PartNo = <<"1", "5", "5", "0", "5", "9", "5", "-", "9", "9", "6", "0">>
    /\ result.PartDescription = <<"S", "e", "a", "l", " ", "K", "i", "t">>
    /\ result.TaskCode = <<"9", "4", "6", "5", "1", "5", "0">>
    /\ result.ComponentPath = <<"[", "6", "4", "8", "5", "7", "5", "-", "0", "4", "0", "0", "]">>
    /\ result.QtyRequired = <<"2">>
    /\ result.UOM = <<"E", "A">>

\* the tokens of a task row argument after code, trade and action
remaining_tokens(a) == a.body \o a.ref \o a.interval

\* the tokens end in "No Interval", in any case
ends_in_no_interval(tokens) ==
    /\ Len(tokens) >= 2
    /\ lower(tokens[Len(tokens) - 1]) = K_no
    /\ lower(tokens[Len(tokens)]) = K_interval

\* the tokens end in an integer and a unit
ends_in_integer_unit(tokens) == Len(tokens) >= 2 /\ is_integer_unit(last_k(tokens, 2))

\* C11: the interval of a parsed task row is empty, "No Interval" or an integer and a
\* unit of Hours, Weeks, Months, Days; when the remaining tokens end in neither form
\* the interval is empty and all remaining tokens are in description and document
\* reference.
C11_IntervalForms ==
    phase = "task_row_parsed" =>
        LET rem == remaining_tokens(arg)
        IN  /\ \/ result.interval = <<>>
               \/ result.interval = S_No_Interval
               \/ is_integer_unit(split(result.interval))
            /\ (~ends_in_no_interval(rem) /\ ~ends_in_integer_unit(rem)) =>
                /\ result.interval = <<>>
                /\ split(result.task_description) \o split(result.doc_ref) = rem

\* the tokens end in "No reference", in any case
ends_in_no_reference(tokens) ==
    /\ Len(tokens) >= 2
    /\ lower(tokens[Len(tokens) - 1]) = K_no
    /\ lower(tokens[Len(tokens)]) = K_reference

\* a reference token: 2 to 8 upper-case letters, or digits joined by dots and dashes;
\* never a token with a '/'
is_reference_token(tok) ==
    \/ /\ Len(tok) >= 2
       /\ Len(tok) <= 8
       /\ \A i \in 1..Len(tok) : tok[i] \in Upper
    \/ /\ \E i \in 1..Len(tok) : tok[i] \in Digit
       /\ \A i \in 1..Len(tok) : tok[i] \in Digit \cup {".", "-"}

\* C12: for a task row whose text after the interval does not end in "No reference",
\* the document reference is empty or the single trailing token of that text, and when
\* the trailing token is no reference token (it has a '/', or is a lower-case word) the
\* document reference is empty and the whole text is the description.  Stated for the
\* rows that end in an integer and a unit or in "No Interval".
C12_DocRefIsTrailingToken ==
    (/\ phase = "task_row_parsed"
     /\ is_integer_unit(arg.interval) \/ ends_in_no_interval(arg.interval)
     /\ ~ends_in_no_reference(arg.body \o arg.ref)) =>
        LET rest == arg.body \o arg.ref
        IN  /\ \/ result.doc_ref = <<>>
               \/ rest # <<>> /\ result.doc_ref = rest[Len(rest)]
            /\ (rest # <<>> /\ ~is_reference_token(rest[Len(rest)])) =>
                /\ result.doc_ref = <<>>
                /\ result.task_description = join(rest)
====
